---- MODULE Spec2Model ----
(***************************************************************************)
(* Model of src/agent/agent.py: the environment validator, the session     *)
(* bootstrap of entrypoint() and the debounced echo/interrupt response     *)
(* policy (on_text, speak_now, schedule_debounced_speak, _later,           *)
(* on_transcript).                                                         *)
(*                                                                         *)
(* Time is counted in ticks of 0.1 time unit.  The asyncio loop never      *)
(* sleeps while a callback is ready, so time advances only when the ready  *)
(* queue is empty and no sleeping task is due.  A text is a sequence of    *)
(* one-character strings.                                                  *)
(***************************************************************************)
EXTENDS Integers, Sequences, FiniteSets, TLC

\* ------------------------------------------------------------------ bounds
MaxQueue == 1          \* callbacks waiting in the loop's ready queue
MaxSlots == 2          \* task objects representable at the same time

\* --------------------------------------------------------------- constants
QuietTicks == 7              \* asyncio.sleep(0.7)
AvatarTimeoutTicks == 300    \* asyncio.wait_for(..., timeout=30)

Whitespace == {" ", "\t", "\n"}

\* ev.text / event.transcript may be None (or the attribute may be absent)
NoneText == <<"None">>

RawTexts ==
  { NoneText, <<>>, <<" ", "\n">>, <<"h">>, <<"\t", "h", "i", " ">> }

Contexts == {"loop", "producer"}

Greeting ==
  << "R","e","a","d","y","."," ","S","p","e","a","k"," ","o","r"," ",
     "t","y","p","e","." >>

RequiredNames ==
  << "LIVEKIT_URL", "LIVEKIT_API_KEY", "LIVEKIT_API_SECRET",
     "TAVUS_API_KEY", "TAVUS_REPLICA_ID", "TAVUS_PERSONA_ID" >>

\* an environment variable is unbound, bound to "", or bound to a value
EnvValues == {"unset", "empty", "set"}

Slots == 1..MaxSlots

VARIABLES
  pc,            \* position of entrypoint()
  env,           \* os.environ restricted to the required names
  steps,         \* bootstrap calls made so far, in order
  failure,       \* exception that ended entrypoint(), if any
  elapsed,       \* ticks waited inside asyncio.wait_for
  pending_text,  \* nonlocal pending_text
  pending_task,  \* nonlocal pending_task: a slot, or 0 for None
  task,          \* the task objects created by schedule_debounced_speak
  ready,         \* callbacks queued by loop.call_soon_threadsafe
  last,          \* the handler that ran in the last step, with its input
  calls,         \* session.interrupt / session.say calls of the last step
  raised,        \* exception that left the handler of the last step
  sincePartial,  \* ticks since schedule_debounced_speak last ran (capped)
  firedSince,    \* debounced speaks since schedule_debounced_speak last ran
  lastPartial,   \* argument of the last schedule_debounced_speak call
  burst          \* schedule_debounced_speak runs of the current run of
                 \* partials: a run starts when no timer sleeps (capped at 2)

vars ==
  << pc, env, steps, failure, elapsed, pending_text, pending_task, task,
     ready, last, calls, raised, sincePartial, firedSince, lastPartial,
     burst >>

bootVars == << pc, env, steps, failure, elapsed >>
policyVars == << pending_text, pending_task, task, ready >>
histVars == << sincePartial, firedSince, lastPartial, burst >>

\* ----------------------------------------------------------- str.strip()
RECURSIVE LStrip(_)
LStrip(s) ==
  IF s = <<>> THEN s
  ELSE IF Head(s) \in Whitespace THEN LStrip(Tail(s)) ELSE s

RECURSIVE RStrip(_)
RStrip(s) ==
  IF s = <<>> THEN s
  ELSE IF s[Len(s)] \in Whitespace THEN RStrip(SubSeq(s, 1, Len(s) - 1)) ELSE s

Strip(s) == RStrip(LStrip(s))

\* (x or "")
OrEmpty(t) == IF t = NoneText THEN <<>> ELSE t

\* ------------------------------------------------------------ require_env
Truthy(v) == v = "set"

\* a validator that stops at the first missing name
Missing_first_only(names, e) ==
  IF \E i \in 1..Len(names) : ~Truthy(e[names[i]])
  THEN << names[CHOOSE i \in 1..Len(names) :
                   /\ ~Truthy(e[names[i]])
                   /\ \A j \in 1..(i - 1) : Truthy(e[names[j]])] >>
  ELSE <<>>

RECURSIVE Missing(_, _)
Missing(names, e) ==
  IF names = <<>> THEN <<>>
  ELSE (IF Truthy(e[Head(names)]) THEN <<>> ELSE <<Head(names)>>)
       \o Missing(Tail(names), e)

NoFailure == [kind |-> "none", missing |-> <<>>, at |-> 0]

require_env(names, e) ==
  IF Missing(names, e) # <<>>
  THEN [kind |-> "RuntimeError", missing |-> Missing(names, e), at |-> 0]
  ELSE NoFailure

\* ------------------------------------------------- calls on the session
InterruptCall(ctx, ok) ==
  [op |-> "interrupt", text |-> <<>>, allow |-> FALSE, ctx |-> ctx, ok |-> ok]

SayCall(text, ctx, ok) ==
  [op |-> "say", text |-> text, allow |-> TRUE, ctx |-> ctx, ok |-> ok]

Outcome(cs, exc) == [calls |-> cs, raised |-> exc]

\* speak_now without the try/except around session.interrupt()
speak_now_unguarded(text, ctx, iOk, sOk) ==
  IF Strip(text) = <<>> THEN Outcome(<<>>, "none")
  ELSE IF ~iOk THEN Outcome(<< InterruptCall(ctx, iOk) >>, "InterruptError")
  ELSE Outcome(<< InterruptCall(ctx, iOk), SayCall(Strip(text), ctx, sOk) >>,
               IF sOk THEN "none" ELSE "SayError")

\* speak_now with the say inside the try/except as well
speak_now_swallows_say(text, ctx, iOk, sOk) ==
  IF Strip(text) = <<>> THEN Outcome(<<>>, "none")
  ELSE Outcome(<< InterruptCall(ctx, iOk), SayCall(Strip(text), ctx, sOk) >>,
               "none")

\* lines 81-89; iOk and sOk tell whether session.interrupt() and
\* session.say() return or raise; a failed interrupt is swallowed
speak_now(text, ctx, iOk, sOk) ==
  IF Strip(text) = <<>> THEN Outcome(<<>>, "none")
  ELSE Outcome(<< InterruptCall(ctx, iOk), SayCall(Strip(text), ctx, sOk) >>,
               IF sOk THEN "none" ELSE "SayError")

\* on_text that says ev.text as received, without strip()
on_text_body_untrimmed(raw, ctx, iOk, sOk) ==
  IF Strip(OrEmpty(raw)) = <<>> THEN Outcome(<<>>, "none")
  ELSE Outcome(<< InterruptCall(ctx, iOk), SayCall(OrEmpty(raw), ctx, sOk) >>,
               IF sOk THEN "none" ELSE "SayError")

\* lines 27-34
on_text_body(raw, ctx, iOk, sOk) ==
  IF Strip(OrEmpty(raw)) = <<>> THEN Outcome(<<>>, "none")
  ELSE Outcome(<< InterruptCall(ctx, iOk),
                  SayCall(Strip(OrEmpty(raw)), ctx, sOk) >>,
               IF sOk THEN "none" ELSE "SayError")

\* ------------------------------------------------------------ task objects
FreeTask == [st |-> "free", rem |-> 0, arg |-> <<>>, stale |-> FALSE]

Ended(st, arg) == [st |-> st, rem |-> 0, arg |-> arg, stale |-> FALSE]

TaskDone(t) == t.st \in {"done", "cancelled", "failed"}

Live == { s \in Slots : task[s].st = "sleeping" }

\* a finished task nobody references is reclaimed
Collect(tk, ref) ==
  [ s \in Slots |-> IF TaskDone(tk[s]) /\ s # ref THEN FreeTask ELSE tk[s] ]

FreeSlots(tk) == { s \in Slots : tk[s].st = "free" }

LowestFree(tk) ==
  IF FreeSlots(tk) = {} THEN 0
  ELSE CHOOSE s \in FreeSlots(tk) : \A r \in FreeSlots(tk) : s <= r

\* the cancel guarded by pending_task.done() instead of its negation
CancelPrevious_inverted(tk, ref) ==
  IF ref # 0 /\ tk[ref].st \in {"done", "cancelled", "failed"}
  THEN [tk EXCEPT ![ref] = [st |-> "cancelled", rem |-> 0,
                            arg |-> tk[ref].arg, stale |-> FALSE]]
  ELSE tk

\* if pending_task is not None and not pending_task.done(): cancel()
CancelPrevious(tk, ref) ==
  IF ref # 0 /\ ~TaskDone(tk[ref])
  THEN [tk EXCEPT ![ref] = Ended("cancelled", tk[ref].arg)]
  ELSE tk

Step(op, raw, final, ctx, stale) ==
  [op |-> op, raw |-> raw, final |-> final, ctx |-> ctx, stale |-> stale]

Accepting == pc \in {"starting", "running"}

\* -------------------------------------------------------------------- Init
Init ==
  /\ pc = "begin"
  /\ env \in [ {RequiredNames[i] : i \in 1..Len(RequiredNames)} -> EnvValues ]
  /\ steps = <<>>
  /\ failure = NoFailure
  /\ elapsed = 0
  /\ pending_text = <<>>
  /\ pending_task = 0
  /\ task = [s \in Slots |-> FreeTask]
  /\ ready = <<>>
  /\ last = Step("none", <<>>, FALSE, "loop", FALSE)
  /\ calls = <<>>
  /\ raised = "none"
  /\ sincePartial = -1
  /\ firedSince = 0
  /\ lastPartial = <<>>
  /\ burst = 0

Quiet == /\ last' = Step("boot", <<>>, FALSE, "loop", FALSE)
         /\ calls' = <<>>
         /\ raised' = "none"

\* ------------------------------------------------------------- entrypoint
\* an entrypoint that connects to the room before it validates
Validate_connect_first ==
  /\ pc = "begin"
  /\ IF require_env(RequiredNames, env).kind = "none"
     THEN /\ pc' = "connecting"
          /\ steps' = steps \o <<"connect", "require_env">>
          /\ failure' = failure
     ELSE /\ pc' = "failed"
          /\ steps' = steps \o <<"connect", "require_env">>
          /\ failure' = require_env(RequiredNames, env)
  /\ Quiet
  /\ UNCHANGED << env, elapsed, policyVars, histVars >>

\* lines 39-48: validate, then call ctx.connect()
Validate ==
  /\ pc = "begin"
  /\ IF require_env(RequiredNames, env).kind = "none"
     THEN /\ pc' = "connecting"
          /\ steps' = steps \o <<"require_env", "connect">>
          /\ failure' = failure
     ELSE /\ pc' = "failed"
          /\ steps' = steps \o <<"require_env">>
          /\ failure' = require_env(RequiredNames, env)
  /\ Quiet
  /\ UNCHANGED << env, elapsed, policyVars, histVars >>

\* lines 48-73: connect returned; build the session, call avatar.start
Connected(ok) ==
  /\ pc = "connecting"
  /\ IF ok
     THEN /\ pc' = "avatar_wait"
          /\ steps' = steps \o <<"AgentSession", "avatar.start">>
          /\ failure' = failure
     ELSE /\ pc' = "failed"
          /\ steps' = steps
          /\ failure' = [kind |-> "ConnectError", missing |-> <<>>, at |-> 0]
  /\ Quiet
  /\ UNCHANGED << env, elapsed, policyVars, histVars >>

\* time passes while wait_for waits
AvatarTick ==
  /\ pc = "avatar_wait"
  /\ elapsed < AvatarTimeoutTicks
  /\ elapsed' = elapsed + 1
  /\ Quiet
  /\ UNCHANGED << pc, env, steps, failure, policyVars, histVars >>

\* lines 73-134: avatar.start returned in time; register the handler and
\* call session.start
AvatarStarted(ok) ==
  /\ pc = "avatar_wait"
  /\ elapsed <= AvatarTimeoutTicks
  /\ IF ok
     THEN /\ pc' = "starting"
          /\ steps' = steps \o <<"session.on", "session.start">>
          /\ failure' = failure
     ELSE /\ pc' = "failed"
          /\ steps' = steps
          /\ failure' = [kind |-> "AvatarError", missing |-> <<>>, at |-> elapsed]
  /\ elapsed' = 0
  /\ Quiet
  /\ UNCHANGED << env, policyVars, histVars >>

\* a wait_for whose timeout is swallowed: the bootstrap carries on
AvatarTimeout_ignored ==
  /\ pc = "avatar_wait"
  /\ elapsed = AvatarTimeoutTicks
  /\ pc' = "starting"
  /\ steps' = steps \o <<"session.on", "session.start">>
  /\ failure' = [kind |-> "TimeoutError", missing |-> <<>>, at |-> elapsed]
  /\ elapsed' = 0
  /\ Quiet
  /\ UNCHANGED << env, policyVars, histVars >>

\* line 73: the timeout of wait_for expires
AvatarTimeout ==
  /\ pc = "avatar_wait"
  /\ elapsed = AvatarTimeoutTicks
  /\ pc' = "failed"
  /\ failure' = [kind |-> "TimeoutError", missing |-> <<>>, at |-> elapsed]
  /\ elapsed' = 0
  /\ Quiet
  /\ UNCHANGED << env, steps, policyVars, histVars >>

\* lines 134-137: session.start returned; say the greeting
Started(ok, sOk) ==
  /\ pc = "starting"
  /\ IF ok
     THEN /\ steps' = steps \o <<"greeting">>
          /\ calls' = << SayCall(Greeting, "loop", sOk) >>
          /\ raised' = IF sOk THEN "none" ELSE "SayError"
          /\ pc' = IF sOk THEN "running" ELSE "failed"
          /\ failure' = IF sOk THEN failure
                        ELSE [kind |-> "SayError", missing |-> <<>>, at |-> 0]
     ELSE /\ steps' = steps
          /\ calls' = <<>>
          /\ raised' = "none"
          /\ pc' = "failed"
          /\ failure' = [kind |-> "StartError", missing |-> <<>>, at |-> 0]
  /\ last' = Step("greeting", <<>>, FALSE, "loop", FALSE)
  /\ UNCHANGED << env, elapsed, policyVars, histVars >>

\* ---------------------------------------------------------- response policy
\* an immediate speak happened while these tasks were sleeping
MarkStale(tk, spoke) ==
  [ s \in Slots |->
      IF spoke /\ tk[s].st = "sleeping" THEN [tk[s] EXCEPT !.stale = TRUE]
      ELSE tk[s] ]

\* lines 26-34, called by the text-input channel in its own context
on_text(raw, ctx, iOk, sOk) ==
  /\ Accepting
  /\ calls' = on_text_body(raw, ctx, iOk, sOk).calls
  /\ raised' = on_text_body(raw, ctx, iOk, sOk).raised
  /\ last' = Step("on_text", raw, TRUE, ctx, FALSE)
  /\ task' = MarkStale(task, on_text_body(raw, ctx, iOk, sOk).calls # <<>>)
  /\ UNCHANGED << bootVars, pending_text, pending_task, ready, histVars >>

Callback(fn, text) == [fn |-> fn, text |-> text]

\* on_transcript without the "if not text: return" of lines 113-114
Dispatch_no_empty_check(raw, final) ==
  IF final THEN << Callback("speak_now", Strip(OrEmpty(raw))) >>
  ELSE << Callback("schedule_debounced_speak", Strip(OrEmpty(raw))) >>

\* on_transcript that debounces finals like partials
Dispatch_ignores_final(raw, final) ==
  IF Strip(OrEmpty(raw)) = <<>> THEN <<>>
  ELSE << Callback("schedule_debounced_speak", Strip(OrEmpty(raw))) >>

\* lines 107-120: what on_transcript hands to loop.call_soon_threadsafe
Dispatch(raw, final) ==
  IF Strip(OrEmpty(raw)) = <<>> THEN <<>>
  ELSE IF final THEN << Callback("speak_now", Strip(OrEmpty(raw))) >>
  ELSE << Callback("schedule_debounced_speak", Strip(OrEmpty(raw))) >>

\* lines 104-120, called by the session in the context that emits the event
on_transcript(raw, final, ctx) ==
  /\ Accepting
  /\ Len(ready) + Len(Dispatch(raw, final)) <= MaxQueue
  /\ ready' = ready \o Dispatch(raw, final)
  /\ last' = Step("on_transcript", raw, final, ctx, FALSE)
  /\ calls' = <<>>
  /\ raised' = "none"
  /\ UNCHANGED << bootVars, pending_text, pending_task, task, histVars >>

\* a speak_now that also cancels the sleeping pending_task
RunSpeakNow_cancels(iOk, sOk) ==
  /\ Accepting
  /\ ready # <<>>
  /\ Head(ready).fn = "speak_now"
  /\ ready' = Tail(ready)
  /\ calls' = speak_now(Head(ready).text, "loop", iOk, sOk).calls
  /\ raised' = speak_now(Head(ready).text, "loop", iOk, sOk).raised
  /\ last' = Step("speak_now", Head(ready).text, TRUE, "loop", FALSE)
  /\ task' = CancelPrevious(task, pending_task)
  /\ UNCHANGED << bootVars, pending_text, pending_task, histVars >>

\* the loop runs a queued speak_now(text)
RunSpeakNow(iOk, sOk) ==
  /\ Accepting
  /\ ready # <<>>
  /\ Head(ready).fn = "speak_now"
  /\ ready' = Tail(ready)
  /\ calls' = speak_now(Head(ready).text, "loop", iOk, sOk).calls
  /\ raised' = speak_now(Head(ready).text, "loop", iOk, sOk).raised
  /\ last' = Step("speak_now", Head(ready).text, TRUE, "loop", FALSE)
  /\ task' = MarkStale(task, speak_now(Head(ready).text, "loop", iOk, sOk).calls # <<>>)
  /\ UNCHANGED << bootVars, pending_text, pending_task, histVars >>

NewTask(text) ==
  [st |-> "sleeping", rem |-> QuietTicks, arg |-> text, stale |-> FALSE]

\* asyncio.create_task(_later()): the new task takes a free slot
CreateTask(tk, slot, text) ==
  [ s \in Slots |-> IF s = slot THEN NewTask(text) ELSE tk[s] ]

\* schedule_debounced_speak without "pending_text = text" (line 93)
schedule_keeps_old_text(text, ptask, tk) ==
  LET cancelled == Collect(CancelPrevious(tk, ptask), 0)
      slot == LowestFree(cancelled)
  IN [ pending_text |-> pending_text,
       pending_task |-> slot,
       task |-> CreateTask(cancelled, slot, text),
       room |-> FreeSlots(cancelled) # {} ]

\* schedule_debounced_speak without the cancel of lines 95-96
schedule_without_cancel(text, ptask, tk) ==
  LET kept == Collect(tk, 0)
      slot == LowestFree(kept)
  IN [ pending_text |-> text,
       pending_task |-> slot,
       task |-> CreateTask(kept, slot, text),
       room |-> FreeSlots(kept) # {} ]

\* lines 91-102: the pending state after schedule_debounced_speak(text)
schedule_debounced_speak(text, ptask, tk) ==
  LET cancelled == Collect(CancelPrevious(tk, ptask), 0)
      slot == LowestFree(cancelled)
  IN [ pending_text |-> text,
       pending_task |-> slot,
       task |-> CreateTask(cancelled, slot, text),
       room |-> FreeSlots(cancelled) # {} ]

\* the loop runs a queued schedule_debounced_speak(text)
RunSchedule ==
  /\ Accepting
  /\ ready # <<>>
  /\ Head(ready).fn = "schedule_debounced_speak"
  /\ schedule_debounced_speak(Head(ready).text, pending_task, task).room
  /\ ready' = Tail(ready)
  /\ pending_text' = schedule_debounced_speak(Head(ready).text, pending_task, task).pending_text
  /\ pending_task' = schedule_debounced_speak(Head(ready).text, pending_task, task).pending_task
  /\ task' = schedule_debounced_speak(Head(ready).text, pending_task, task).task
  /\ last' = Step("schedule_debounced_speak", Head(ready).text, FALSE, "loop", FALSE)
  /\ calls' = <<>>
  /\ raised' = "none"
  /\ sincePartial' = 0
  /\ firedSince' = 0
  /\ lastPartial' = Head(ready).text
  /\ burst' = IF Live = {} THEN 1 ELSE IF burst < 2 THEN burst + 1 ELSE burst
  /\ UNCHANGED bootVars

\* line 100: the text _later passes to speak_now when it wakes up
later_text(s) == pending_text

\* a _later that keeps the timer when session.say() fails
later_keeps_timer(s, iOk, sOk) ==
  /\ Accepting
  /\ task[s].st = "sleeping"
  /\ task[s].rem = 0
  /\ calls' = speak_now(later_text(s), "loop", iOk, sOk).calls
  /\ raised' = speak_now(later_text(s), "loop", iOk, sOk).raised
  /\ task' = IF speak_now(later_text(s), "loop", iOk, sOk).raised = "none"
             THEN Collect([task EXCEPT ![s] = Ended("done", task[s].arg)],
                          pending_task)
             ELSE task
  /\ last' = Step("later", task[s].arg, FALSE, "loop", task[s].stale)
  /\ firedSince' = IF firedSince < 2 THEN firedSince + 1 ELSE firedSince
  /\ UNCHANGED << bootVars, pending_text, pending_task, ready, sincePartial,
                  lastPartial, burst >>

\* lines 98-100: the sleep of task s is over; _later resumes
later(s, iOk, sOk) ==
  /\ Accepting
  /\ task[s].st = "sleeping"
  /\ task[s].rem = 0
  /\ calls' = speak_now(later_text(s), "loop", iOk, sOk).calls
  /\ raised' = speak_now(later_text(s), "loop", iOk, sOk).raised
  /\ task' = Collect(
       [task EXCEPT ![s] =
          Ended(IF speak_now(later_text(s), "loop", iOk, sOk).raised = "none"
                THEN "done" ELSE "failed", task[s].arg)],
       pending_task)
  /\ last' = Step("later", task[s].arg, FALSE, "loop", task[s].stale)
  /\ firedSince' = IF firedSince < 2 THEN firedSince + 1 ELSE firedSince
  /\ UNCHANGED << bootVars, pending_text, pending_task, ready, sincePartial,
                  lastPartial, burst >>

\* line 99: 0.1 time unit passes; the loop is idle and no sleep is over
Tick ==
  /\ Accepting
  /\ ready = <<>>
  /\ \A s \in Live : task[s].rem > 0
  /\ task' = [ s \in Slots |->
                 IF task[s].st = "sleeping"
                 THEN [task[s] EXCEPT !.rem = task[s].rem - 1] ELSE task[s] ]
  /\ sincePartial' = IF sincePartial \in 0..(QuietTicks - 1)
                     THEN sincePartial + 1 ELSE sincePartial
  /\ last' = Step("tick", <<>>, FALSE, "loop", FALSE)
  /\ calls' = <<>>
  /\ raised' = "none"
  /\ UNCHANGED << bootVars, pending_text, pending_task, ready, firedSince,
                  lastPartial, burst >>

\* -------------------------------------------------------------------- Next
Next ==
  \/ Validate
  \/ \E ok \in BOOLEAN : Connected(ok)
  \/ AvatarTick
  \/ \E ok \in BOOLEAN : AvatarStarted(ok)
  \/ AvatarTimeout
  \/ \E ok \in BOOLEAN, sOk \in BOOLEAN : Started(ok, sOk)
  \/ \E raw \in RawTexts, ctx \in Contexts, iOk \in BOOLEAN, sOk \in BOOLEAN :
       on_text(raw, ctx, iOk, sOk)
  \/ \E raw \in RawTexts, final \in BOOLEAN, ctx \in Contexts :
       on_transcript(raw, final, ctx)
  \/ \E iOk \in BOOLEAN, sOk \in BOOLEAN : RunSpeakNow(iOk, sOk)
  \/ RunSchedule
  \/ \E s \in Slots, iOk \in BOOLEAN, sOk \in BOOLEAN : later(s, iOk, sOk)
  \/ Tick

Spec == Init /\ [][Next]_vars

\* the loop runs the callback at the head of its ready queue
RunReady == (\E iOk \in BOOLEAN, sOk \in BOOLEAN : RunSpeakNow(iOk, sOk)) \/ RunSchedule

\* the loop resumes a task whose sleep is over
RunDue == \E s \in Slots, iOk \in BOOLEAN, sOk \in BOOLEAN : later(s, iOk, sOk)

\* The events of the fair specification: valid configuration, every kind of
\* event (blank or not, partial or final, transcript or text input), delivered
\* on the loop, session.interrupt() succeeding; session.say() and every
\* bootstrap step may fail.
LiveTexts == { <<" ", "\n">>, <<"h">>, <<"\t", "h", "i", " ">> }

LiveInit == Init /\ \A n \in DOMAIN env : env[n] = "set"

LiveNext ==
  \/ Validate
  \/ \E ok \in BOOLEAN : Connected(ok)
  \/ AvatarTick
  \/ \E ok \in BOOLEAN : AvatarStarted(ok)
  \/ AvatarTimeout
  \/ \E ok \in BOOLEAN, sOk \in BOOLEAN : Started(ok, sOk)
  \/ \E raw \in LiveTexts, sOk \in BOOLEAN : on_text(raw, "loop", TRUE, sOk)
  \/ \E raw \in LiveTexts, final \in BOOLEAN : on_transcript(raw, final, "loop")
  \/ \E sOk \in BOOLEAN : RunSpeakNow(TRUE, sOk)
  \/ RunSchedule
  \/ \E s \in Slots, sOk \in BOOLEAN : later(s, TRUE, sOk)
  \/ Tick

\* The loop runs every ready callback and every due task.  Time goes on:
\* events arrive at a finite rate, so the ready queue is empty again and again
\* and, whenever the loop is idle often enough, 0.1 time unit passes.
FairSpec ==
  /\ LiveInit
  /\ [][LiveNext]_vars
  /\ WF_vars(RunReady)
  /\ WF_vars(RunDue)
  /\ SF_vars(Tick)
  /\ []<>(ready = <<>>)

TypeOK ==
  /\ pc \in {"begin", "connecting", "avatar_wait", "starting", "running", "failed"}
  /\ elapsed \in 0..AvatarTimeoutTicks
  /\ pending_task \in 0..MaxSlots
  /\ Len(ready) <= MaxQueue
  /\ sincePartial \in -1..QuietTicks
  /\ \A s \in Slots : task[s].rem \in 0..QuietTicks

\* ------------------------------------------------------------------ claims
\* t is r without its leading and trailing whitespace
IsTrimOf(t, r) ==
  \E i \in 0..Len(r), j \in 0..Len(r) :
    /\ i + Len(t) + j = Len(r)
    /\ t = SubSeq(r, i + 1, i + Len(t))
    /\ \A k \in 1..i : r[k] \in Whitespace
    /\ \A k \in (Len(r) - j + 1)..Len(r) : r[k] \in Whitespace
    /\ t # <<>> => (t[1] \notin Whitespace /\ t[Len(t)] \notin Whitespace)

\* r is None, empty or whitespace only
Blank(r) == r = NoneText \/ \A k \in 1..Len(r) : r[k] \in Whitespace

Says(cs) == { i \in 1..Len(cs) : cs[i].op = "say" }

Interrupts(cs) == { i \in 1..Len(cs) : cs[i].op = "interrupt" }

\* exactly one say, carrying text
OneSay(cs, text) ==
  /\ Cardinality(Says(cs)) = 1
  /\ \A i \in Says(cs) : cs[i].text = text

\* no task starts sleeping and pending_task keeps its value in this step
NoTimerCreated ==
  /\ pending_task' = pending_task
  /\ \A s \in Slots :
       task'[s].st = "sleeping" =>
         (task[s].st = "sleeping" /\ task'[s].rem = task[s].rem)

\* C1: a run of non-empty partials, each handled before the timer of the one
\* before it is over, ends in exactly one debounced SpeechRequest, carrying
\* the text of the last partial of the run: when _later speaks it says the
\* argument of the latest schedule call and it is the first to speak since
\* that call; while a timer sleeps nothing has been spoken for its run, and
\* once no timer sleeps exactly one debounced speak has happened.
C1_CoalescedToLast ==
  /\ last.op = "later" =>
       /\ OneSay(calls, lastPartial)
       /\ firedSince = 1
       /\ Live = {}
  /\ Live # {} => firedSince = 0
  /\ (sincePartial # -1 /\ Live = {}) => firedSince = 1

C1_Witness ==
  /\ last.op = "later"
  /\ burst = 2
  /\ last.raw = <<"h", "i">>
  /\ pending_text = <<"h", "i">>
  /\ OneSay(calls, <<"h", "i">>)

\* C2: a timer that was sleeping when a final transcript or a text input was
\* spoken immediately never speaks its (stale) partial text afterwards.
C2_NoStaleDoubleFire ==
  ~ ( /\ last.op = "later"
      /\ last.stale
      /\ \E i \in Says(calls) : calls[i].text = last.raw )

\* C3: a transcript or text-input event whose text is None, empty or
\* whitespace only causes no say, no interrupt, no error, no queued callback,
\* no timer creation or cancellation and no change of the pending text.
C3_BlankIgnored ==
  [][ (last'.op \in {"on_text", "on_transcript"} /\ Blank(last'.raw)) =>
        /\ calls' = <<>>
        /\ raised' = "none"
        /\ UNCHANGED << pending_text, pending_task, task, ready >> ]_vars

C3_Witness ==
  /\ last.op = "on_transcript"
  /\ last.raw = <<" ", "\n">>
  /\ Live # {}
  /\ calls = <<>>

\* C4: a text input or a final transcript with non-blank text gets exactly
\* one say of exactly the trimmed text, with interruption allowed, in the step
\* that handles it, creates no timer, and no time passes between the arrival
\* of a final transcript and its speak_now callback.
C4_ImmediateSpeak ==
  [][ /\ (last'.op = "on_text" /\ ~Blank(last'.raw)) =>
           /\ \E t \in {calls'[i].text : i \in Says(calls')} :
                IsTrimOf(t, last'.raw) /\ OneSay(calls', t)
           /\ \A i \in Says(calls') : calls'[i].allow
           /\ NoTimerCreated
      /\ (last'.op = "on_transcript" /\ last'.final /\ ~Blank(last'.raw)) =>
           /\ Len(ready') = Len(ready) + 1
           /\ ready'[Len(ready')].fn = "speak_now"
           /\ IsTrimOf(ready'[Len(ready')].text, last'.raw)
           /\ NoTimerCreated
      /\ last'.op = "speak_now" =>
           /\ ready # <<>>
           /\ OneSay(calls', Head(ready).text)
           /\ \A i \in Says(calls') : calls'[i].allow
           /\ NoTimerCreated
      /\ last'.op = "tick" => ready = <<>> ]_vars

C4_Witness ==
  /\ last.op = "speak_now"
  /\ OneSay(calls, <<"h", "i">>)
  /\ Live = {}
  /\ pending_task = 0

\* C5: at most one debounce timer is live, and it is the one pending_task
\* refers to: a schedule call leaves no earlier timer sleeping.
C5_OneLiveTimer ==
  /\ Cardinality(Live) <= 1
  /\ Live \subseteq {pending_task}

C5_Witness ==
  /\ last.op = "schedule_debounced_speak"
  /\ burst = 2
  /\ Cardinality(Live) = 1

\* C6: a debounced speak happens only when the full quiet interval has
\* passed since the last schedule_debounced_speak call.
C6_QuietBeforeSpeak ==
  (last.op = "later" /\ calls # <<>>) => sincePartial = QuietTicks

C6_Witness ==
  /\ last.op = "later"
  /\ calls # <<>>
  /\ sincePartial = QuietTicks
  /\ burst = 2
  /\ last.raw = <<"h">>

\* C7: a failed session.interrupt() is swallowed: the say of the trimmed text
\* follows it, the interruption error never leaves the handler, and no error
\* at all leaves it when the say succeeds.
C7_InterruptFailureSwallowed ==
  \A i \in Interrupts(calls) :
    ~calls[i].ok =>
      /\ raised # "InterruptError"
      /\ i < Len(calls)
      /\ calls[i + 1].op = "say"
      /\ IsTrimOf(calls[i + 1].text, OrEmpty(last.raw))
      /\ calls[i + 1].ok => raised = "none"

C7_Witness ==
  /\ last.op = "speak_now"
  /\ Len(calls) = 2
  /\ ~calls[1].ok
  /\ calls[2].op = "say" /\ calls[2].ok
  /\ raised = "none"

NameIndex(n) == CHOOSE i \in 1..Len(RequiredNames) : RequiredNames[i] = n

UnboundNames == { n \in DOMAIN env : env[n] # "set" }

\* C8: with a required name unbound or empty, entrypoint fails with an error
\* listing every such name once, in the order required, and nothing beyond
\* require_env is ever called.
C8_MissingEnvFailsFirst ==
  UnboundNames # {} =>
    /\ pc \in {"begin", "failed"}
    /\ calls = <<>>
    /\ pc = "begin" => steps = <<>>
    /\ pc = "failed" =>
         /\ steps = <<"require_env">>
         /\ failure.kind = "RuntimeError"
         /\ {failure.missing[i] : i \in 1..Len(failure.missing)} = UnboundNames
         /\ \A i, j \in 1..Len(failure.missing) :
              i < j => NameIndex(failure.missing[i]) < NameIndex(failure.missing[j])

C8_Witness ==
  /\ pc = "failed"
  /\ failure.missing = <<"LIVEKIT_API_KEY", "TAVUS_API_KEY">>
  /\ env["LIVEKIT_API_KEY"] = "empty"
  /\ env["TAVUS_API_KEY"] = "unset"

\* C9: wait_for never waits beyond 30 time units; when it times out the
\* failure is raised at t = 30 and the handler registration, session.start
\* and the greeting never happen.
C9_AvatarTimeout ==
  /\ pc = "avatar_wait" => elapsed <= 300
  /\ failure.kind = "TimeoutError" =>
       /\ failure.at = 300
       /\ pc = "failed"
       /\ steps = <<"require_env", "connect", "AgentSession", "avatar.start">>
       /\ calls = <<>>
       /\ ready = <<>>

C9_Witness ==
  /\ failure.kind = "TimeoutError"
  /\ pc = "failed"

\* C10: every session.interrupt() and session.say() call is made in the
\* loop's context, whichever context delivered the event.
C10_AllCallsOnLoop ==
  \A i \in 1..Len(calls) : calls[i].ctx = "loop"

BootOrder ==
  << "require_env", "connect", "AgentSession", "avatar.start", "session.on",
     "session.start", "greeting" >>

\* the bootstrap calls made when entrypoint ended with failure kind k
StepsAtFailure(k) ==
  CASE k = "RuntimeError" -> 1
    [] k = "ConnectError" -> 2
    [] k \in {"AvatarError", "TimeoutError"} -> 4
    [] k = "StartError" -> 6
    [] OTHER -> 7

\* C11: the bootstrap calls are made in the order validate, connect,
\* construct session, start avatar, register handler, start session,
\* greeting; each is made only when the one before it returned, and a
\* failure leaves every later call unmade.
C11_BootOrder ==
  /\ Len(steps) <= Len(BootOrder)
  /\ steps = SubSeq(BootOrder, 1, Len(steps))
  /\ pc = "begin" => steps = <<>>
  /\ pc = "connecting" => Len(steps) = 2
  /\ pc = "avatar_wait" => Len(steps) = 4
  /\ pc = "starting" => Len(steps) = 6
  /\ pc = "running" => Len(steps) = 7
  /\ pc = "failed" => Len(steps) = StepsAtFailure(failure.kind)
  /\ failure.kind # "none" <=> pc = "failed"

C11_Witness ==
  /\ pc = "running"
  /\ steps = BootOrder
  /\ last.op = "greeting"
  /\ calls = << SayCall(Greeting, "loop", TRUE) >>

\* C12: a failed session.say() is never swallowed: in the step that made
\* the call the error leaves the handler (on_text, speak_now run by the
\* loop, _later, whose task ends failed, and the greeting of entrypoint).
C12_SayFailurePropagates ==
  \A i \in Says(calls) :
    ~calls[i].ok =>
      /\ raised = "SayError"
      /\ last.op = "later" => \E s \in Slots : task[s].st = "failed"
      /\ last.op = "greeting" => failure.kind = "SayError"

C12_Witness ==
  /\ last.op = "later"
  /\ raised = "SayError"
  /\ Len(calls) = 2
  /\ ~calls[1].ok
  /\ ~calls[2].ok

\* the timer part of a task object: its state, remaining delay and argument
Timer(t) == [st |-> t.st, rem |-> t.rem, arg |-> t.arg]

\* C13: only schedule_debounced_speak, run for a non-empty partial, cancels
\* a sleeping timer or writes pending_text or pending_task; on_text,
\* on_transcript and speak_now leave pending_text, pending_task and every
\* timer, with its remaining delay, as they were.
C13_OnlyPartialTouchesPending ==
  [][ /\ ( \/ pending_text' # pending_text
           \/ pending_task' # pending_task
           \/ \E s \in Slots : task[s].st = "sleeping" /\ task'[s].st = "cancelled" )
         => ( /\ last'.op = "schedule_debounced_speak"
              /\ ready # <<>>
              /\ Head(ready).fn = "schedule_debounced_speak"
              /\ Head(ready).text # <<>> )
      /\ last'.op \in {"on_text", "on_transcript", "speak_now"} =>
           /\ UNCHANGED << pending_text, pending_task >>
           /\ \A s \in Slots : Timer(task'[s]) = Timer(task[s]) ]_vars

C13_Witness ==
  /\ last.op = "speak_now"
  /\ Says(calls) # {}
  /\ \E s \in Live : task[s].rem = 3 /\ task[s].stale /\ s = pending_task
  /\ pending_text = <<"h">>

\* C14: every policy step that speaks makes exactly two calls, one
\* session.interrupt() followed by one session.say() of a non-empty text
\* without leading or trailing whitespace, with allow_interruptions=True; no
\* interrupt is made without the say after it.
C14_InterruptThenSay ==
  last.op # "greeting" =>
    \/ calls = <<>>
    \/ /\ Len(calls) = 2
       /\ calls[1].op = "interrupt"
       /\ calls[2].op = "say"
       /\ calls[2].allow
       /\ calls[2].text # <<>>
       /\ IsTrimOf(calls[2].text, calls[2].text)

C14_Witness ==
  /\ last.op = "on_text"
  /\ last.raw = <<"\t", "h", "i", " ">>
  /\ Len(calls) = 2
  /\ calls[1].op = "interrupt"
  /\ calls[2] = SayCall(<<"h", "i">>, last.ctx, TRUE)

\* C15: while the loop runs, an armed timer leads to its debounced speak (one
\* say, no timer left sleeping) unless a newer non-empty partial re-arms it
\* first or entrypoint fails, whatever finals, text inputs and empty events
\* arrive meanwhile; every schedule call, also one after a speak, arms a
\* fresh timer with the full quiet interval.
C15_ArmedTimerFires ==
  /\ (Live # {}) ~>
       ( \/ pc = "failed"
         \/ last.op = "schedule_debounced_speak"
         \/ (last.op = "later" /\ Cardinality(Says(calls)) = 1 /\ Live = {}) )
  /\ [](last.op = "schedule_debounced_speak" =>
          /\ Live = {pending_task}
          /\ task[pending_task].rem = QuietTicks)

C15_Witness ==
  /\ last.op = "later"
  /\ last.stale
  /\ Cardinality(Says(calls)) = 1
  /\ Live = {}
  /\ pc = "running"
  /\ burst = 1

\* C16: the text _later reads from pending_text when it wakes is the text
\* its schedule call was given: every sleeping task's argument equals
\* pending_text, and a debounced speak says exactly that argument.
C16_FireTimeEqualsSnapshot ==
  /\ \A s \in Live : task[s].arg = pending_text
  /\ last.op = "later" => OneSay(calls, last.raw)

C16_Witness ==
  /\ last.op = "later"
  /\ burst = 2
  /\ last.raw = <<"h", "i">>
  /\ calls[2] = SayCall(<<"h", "i">>, "loop", TRUE)
  /\ lastPartial = last.raw

\* C17: no transcript- or text-triggered say is made before the greeting:
\* a step of the policy that speaks happens only after the greeting call.
C17_GreetingFirst ==
  (last.op # "greeting" /\ Says(calls) # {}) =>
    \E i \in 1..Len(steps) : steps[i] = "greeting"

\* C18: a failed say leaves the policy working: entrypoint goes on, a failed
\* debounced speak leaves no sleeping timer and a finished pending_task, at
\* most the pending timer sleeps, and every event handled in any state, so
\* also after a failure, gets its normal treatment: a schedule call arms a
\* fresh timer as the only one, a text input or final with text is spoken.
C18_SayFailureNoWedge ==
  /\ (raised = "SayError" /\ last.op \in {"on_text", "speak_now", "later"}) =>
       /\ pc \in {"starting", "running"}
       /\ Live \subseteq {pending_task}
       /\ last.op = "later" =>
            /\ Live = {}
            /\ pending_task # 0
            /\ task[pending_task].st = "failed"
  /\ last.op = "schedule_debounced_speak" =>
       /\ Live = {pending_task}
       /\ task[pending_task] = NewTask(last.raw)
       /\ pending_text = last.raw
  /\ (last.op = "on_text" /\ ~Blank(last.raw)) => Says(calls) # {}
  /\ last.op = "speak_now" => Says(calls) # {}

C18_Witness ==
  /\ last.op = "later"
  /\ raised = "SayError"
  /\ Live = {}
  /\ task[pending_task].st = "failed"
  /\ ready # <<>>
  /\ Head(ready).fn = "schedule_debounced_speak"

====
